---- MODULE Spec2Model ----
(***************************************************************************)
(* A model of the rjv plugin: the audio callback Rjv::process, which       *)
(* recompiles the active preset's expression every block and scales every  *)
(* sample by the script's result, the egui update callback of Rjv::editor, *)
(* which edits the expression slots and switches presets, and the          *)
(* tokenizer Highlighter::highlight of the code editor.                    *)
(*                                                                         *)
(* Times are exact rationals (seconds); f32 rounding is not modelled.      *)
(* Samples and gains are integers.  The f32 values of the peak meter are   *)
(* fixed-point numbers, integers counting steps of 1/Unit, and every       *)
(* operation on them rounds to the nearest step.                           *)
(***************************************************************************)
EXTENDS Integers, Sequences, FiniteSets, TLC

\* ------------------------------------------------------------------ bounds

\* Number of process calls explored.
MaxBlocks == 2
\* Number of events from outside the audio callback explored: text edits the
\* user commits, preset buttons the user clicks, preset changes made by the
\* host, calls of initialize.
MaxEvents == 2

\* ------------------------------------------------------- program constants

\* IntRange::Linear { min: 1, max: 6 } of the preset parameter.
PresetMin == 1
PresetMax == 6
Presets == PresetMin..PresetMax

\* The default texts of code_1 .. code_6.
DefaultCode ==
    [k \in Presets |->
        CASE k = 1 -> "fn bla() { 5 + \"hello\" }"
          [] k = 2 -> "20"
          [] k = 3 -> "30"
          [] k = 4 -> "40"
          [] k = 5 -> "50"
          [] OTHER -> "60"]

\* Texts the user types into the editor: one that compiles and fails at run
\* time for t = 1 only (x is not defined) and one that does not compile.
EditTexts == {"t == 1 ? x : 2", "("}

Texts == {DefaultCode[k] : k \in Presets} \cup EditTexts

\* buffer_config.sample_rate values handed to initialize.
SampleRates == {3, 20}

\* Channel counts of AUDIO_IO_LAYOUTS.
Layouts == {1, 2}

\* buffer.samples() of a block.
BlockLens == {1, 2}

\* Input sample values of a channel.
SampleValues == {-1, 1}

\* The preset buttons the user clicks, and the values the host sets.
ClickPresets == {2, 6}
HostPresets == {1, 3}

\* ---------------------------------------------------------------- rationals

RECURSIVE Gcd(_, _)
Gcd(a, b) == IF b = 0 THEN a ELSE Gcd(b, a % b)

Abs(a) == IF a < 0 THEN -a ELSE a

\* The rational n/d (d > 0) in lowest terms.
Rat(n, d) ==
    LET g == Gcd(Abs(n), d)
    IN  IF n = 0 THEN [n |-> 0, d |-> 1] ELSE [n |-> n \div g, d |-> d \div g]

RatAdd(p, q) == Rat(p.n * q.d + q.n * p.d, p.d * q.d)

RatLeq(p, q) == p.n * q.d <= q.n * p.d

\* -------------------------------------------------------------- fixed point

\* The number of steps of the fixed-point numbers in 1.0.
Unit == 1000

\* The product of two fixed-point numbers, rounded to the nearest step.
FxMul(a, b) == (a * b + Unit \div 2) \div Unit

\* The integer k divided by the integer n > 0, as a fixed-point number.
FxDiv(k, n) == (2 * k * Unit + n) \div (2 * n)

\* util::MINUS_INFINITY_DB of nih_plug, the value Rjv::default stores in the
\* peak meter.
MINUS_INFINITY_DB == -100

\* 0.25f64.powf((sample_rate * PEAK_METER_DECAY_MS / 1000.0).recip()) as f32
\* for the sample rates of the model: 0.25^(20/9) = 0.04593 and
\* 0.25^(1/3) = 0.62996.
DecayWeight(sr) ==
    CASE sr = 3 -> 46
      [] sr = 20 -> 630

\* ------------------------------------------------------------ script engine

\* format!("function gain(t) {{ return {}; }}", e)
JsCode(e) == "function gain(t) { return " \o e \o "; }"

\* format!("code <{}>", e)
DisplayText(e) == "code <" \o e \o ">"

\* The expressions that are valid JavaScript expressions.
Compilable == {"20", "30", "40", "50", "60", "t == 1 ? x : 2"}

None == "None"

\* Script::from_string(&js_code).ok(): the handle of the compiled source, or
\* None when the source has a syntax error.
FromString(js) ==
    IF \E e \in Compilable : js = JsCode(e) THEN js ELSE None

Ok(v) == [ok |-> TRUE, val |-> v]
Err == [ok |-> FALSE, val |-> 0]

\* The value of expression e at time t (a rational), or Err when its
\* evaluation throws.
EvalExpr(e, t) ==
    CASE e = "20" -> Ok(20)
      [] e = "30" -> Ok(30)
      [] e = "40" -> Ok(40)
      [] e = "50" -> Ok(50)
      [] e = "60" -> Ok(60)
      [] e = "t == 1 ? x : 2" -> IF t = Rat(1, 1) THEN Err ELSE Ok(2)
      [] OTHER -> Err

\* script.as_mut().and_then(|s| s.call("gain", &time).ok())
Call(s, t) ==
    IF s = None THEN Err
    ELSE EvalExpr(CHOOSE e \in Compilable : JsCode(e) = s, t)

\* A fallback of unity gain instead of silence.
UnwrapOr1(r) == IF r.ok THEN r.val ELSE 1

\* gain_processed.unwrap_or(0.0)
UnwrapOr0(r) == IF r.ok THEN r.val ELSE 0

\* ------------------------------------------------------------------- state

VARIABLES
    \* RjvParams: the preset parameter and the six expression slots
    preset, code,
    \* Rjv fields
    sample_rate, time_s, display, display_lock, nch,
    peak_meter, peak_meter_decay_weight,
    \* params.editor_state.is_open()
    is_open,
    \* UIState and the position of the update callback
    state_preset, state_code, ui_pc,
    \* locals of process and its position
    pc, chk, slot, disp_new, js_code, script, samples, sample_id,
    time, gain, in_s, out_s, amplitude,
    \* the result of is_open() at line 380 and the peak loaded at line 382
    meter_on, current_peak_meter,
    \* the tokenizer: the input, the text left to scan, the sections appended
    src, text, job,
    \* the highlight cache, the text of the last highlight call, what the call
    \* returned and whether it was served from the cache
    cache, hl_code, hl_result, hl_hit,
    \* observers: the numbers of calls and events so far, whether the
    \* parameters were written since the current process call began, the kind
    \* of the last such write, the sample indices of the finished blocks, and
    \* whether all of them ran at the current sample rate
    blocks, events, touched, last_write, n_done, rate_fixed,
    \* observers of the current process call: the numbers of compilations and
    \* of calls of the compiled function so far, and the values the preset
    \* parameter has had since the current call of code() began
    n_compiles, n_calls, seen

vars == <<preset, code, sample_rate, time_s, display, display_lock, nch,
          peak_meter, peak_meter_decay_weight, is_open,
          state_preset, state_code, ui_pc,
          pc, chk, slot, disp_new, js_code, script, samples, sample_id,
          time, gain, in_s, out_s, amplitude, meter_on, current_peak_meter,
          src, text, job, cache, hl_code, hl_result, hl_hit,
          blocks, events, touched, last_write, n_done, rate_fixed,
          n_compiles, n_calls, seen>>

params == <<preset, code>>
ui_vars == <<state_preset, state_code, ui_pc>>
loop_vars == <<sample_id, time, gain, in_s, out_s, amplitude, meter_on,
               current_peak_meter, n_compiles, n_calls>>
meter_vars == <<peak_meter, peak_meter_decay_weight, is_open>>
counters == <<blocks, events>>
cache_vars == <<cache, hl_code, hl_result, hl_hit>>
hl_vars == <<src, text, job, cache_vars>>

\* RjvParams::code(): the slot of the preset p.
CodeOf(p) == IF p \in 1..5 THEN p ELSE 6

\* Rjv::default(), RjvParams::default() and the UIState built by editor().
InitPlugin ==
    /\ preset = 1
    /\ code = DefaultCode
    /\ sample_rate = 1
    /\ time_s = Rat(0, 1)
    /\ display = "hi"
    /\ display_lock = "free"
    /\ nch \in Layouts
    /\ peak_meter = MINUS_INFINITY_DB * Unit
    /\ peak_meter_decay_weight = Unit
    /\ is_open = FALSE
    /\ state_preset = preset
    /\ state_code = code[CodeOf(preset)]
    /\ ui_pc = "idle"
    /\ pc = "idle"
    /\ chk = 1
    /\ slot = 1
    /\ disp_new = ""
    /\ js_code = ""
    /\ script = None
    /\ samples = 0
    /\ sample_id = 0
    /\ time = Rat(0, 1)
    /\ gain = 0
    /\ in_s = [c \in 1..nch |-> 0]
    /\ out_s = [c \in 1..nch |-> 0]
    /\ amplitude = 0
    /\ meter_on = FALSE
    /\ current_peak_meter = 0
    /\ blocks = 0
    /\ events = 0
    /\ touched = FALSE
    /\ last_write = "none"
    /\ n_done = 0
    /\ rate_fixed = TRUE
    /\ n_compiles = 0
    /\ n_calls = 0
    /\ seen = {}

\* No highlight call was made yet: the cache of the egui context is empty.
InitCache ==
    /\ cache = {}
    /\ hl_code = <<>>
    /\ hl_result = [text |-> <<>>, sections |-> <<>>]
    /\ hl_hit = FALSE

Init ==
    /\ InitPlugin
    /\ InitCache
    /\ src = <<>>
    /\ text = <<>>
    /\ job = [text |-> <<>>, sections |-> <<>>]

\* ------------------------------------------------------------ the UI thread

\* The values the preset parameter has had during the current call of
\* code(), when k is stored into it.
SeenWith(k) == IF pc \in {"d_code", "j_code"} THEN seen \cup {k} ELSE seen

\* lines 242-244: the editor text after the re-read that happens at the start
\* of a frame when the preset parameter differs from the UI's own preset index.
SyncedCode ==
    IF state_preset # preset THEN code[CodeOf(preset)] ELSE state_code

\* The commit written to the slot of the UI's own preset index.
SetActiveOfUi(t) == [code EXCEPT ![CodeOf(state_preset)] = t]

\* params.code().set_value(state.code.clone()): the slots after a commit of
\* text t.
SetActive(t) == [code EXCEPT ![CodeOf(preset)] = t]

\* lines 241-260: the start of a frame and the editor widget; when the user
\* changed the text, commit it to the active slot.
UiEditor ==
    /\ ui_pc = "idle"
    /\ \/ /\ events < MaxEvents
          /\ \E t \in EditTexts :
                /\ t # SyncedCode
                /\ state_code' = t
                /\ code' = SetActive(t)
          /\ events' = events + 1
          /\ touched' = TRUE
          /\ last_write' = "commit"
       \/ /\ state_code' = SyncedCode
          /\ UNCHANGED <<code, events, touched, last_write>>
    /\ ui_pc' = "buttons"
    /\ UNCHANGED <<hl_vars, seen, meter_vars, state_preset, preset, sample_rate, time_s,
                   display, display_lock, nch, pc, chk, slot, disp_new,
                   js_code, script, samples, loop_vars, blocks, n_done,
                   rate_fixed>>

\* The text read before the preset parameter is set.
CodeBeforeSelect(k) == code[CodeOf(preset)]

\* The text shown after a click on "Preset k": params.preset.set_value(k),
\* then state.code = params.code().value().
CodeAfterSelect(k) == code[CodeOf(k)]

\* lines 262-310: the six preset buttons; at most one is clicked in a frame.
UiButtons ==
    /\ ui_pc = "buttons"
    /\ \/ /\ events < MaxEvents
          /\ \E k \in ClickPresets :
                /\ state_preset' = k
                /\ preset' = k
                /\ state_code' = CodeAfterSelect(k)
                /\ seen' = SeenWith(k)
          /\ events' = events + 1
          /\ touched' = TRUE
          /\ last_write' = "click"
       \/ UNCHANGED <<state_preset, preset, state_code, events, touched,
                      last_write, seen>>
    /\ ui_pc' = "label"
    /\ UNCHANGED <<hl_vars, meter_vars, code, sample_rate, time_s, display, display_lock,
                   nch, pc, chk, slot, disp_new, js_code, script, samples,
                   loop_vars, blocks, n_done, rate_fixed>>

\* line 315: display.lock() of the status label; the UI thread waits while
\* the audio thread holds the mutex.
UiLabelLock ==
    /\ ui_pc = "label"
    /\ display_lock = "free"
    /\ display_lock' = "ui"
    /\ ui_pc' = "label_locked"
    /\ UNCHANGED <<hl_vars, seen, meter_vars, last_write, params, sample_rate, time_s, display,
                   nch, state_preset, state_code, pc, chk, slot, disp_new,
                   js_code, script, samples, loop_vars, counters, touched,
                   n_done, rate_fixed>>

\* line 315: the string is cloned and the guard dropped at the end of the
\* statement; the frame ends.
UiLabelUnlock ==
    /\ ui_pc = "label_locked"
    /\ display_lock' = "free"
    /\ ui_pc' = "idle"
    /\ UNCHANGED <<hl_vars, seen, meter_vars, last_write, params, sample_rate, time_s, display,
                   nch, state_preset, state_code, pc, chk, slot, disp_new,
                   js_code, script, samples, loop_vars, counters, touched,
                   n_done, rate_fixed>>

\* ------------------------------------------------------------------ the host

\* The host sets the preset parameter (automation or state restore), between
\* two frames of the UI.
HostSetPreset ==
    /\ ui_pc = "idle"
    /\ events < MaxEvents
    /\ \E k \in HostPresets : k # preset /\ preset' = k /\ seen' = SeenWith(k)
    /\ events' = events + 1
    /\ touched' = TRUE
    /\ last_write' = "host"
    /\ UNCHANGED <<hl_vars, meter_vars, code, sample_rate, time_s, display, display_lock,
                   nch, ui_vars, pc, chk, slot, disp_new, js_code, script,
                   samples, loop_vars, blocks, n_done, rate_fixed>>

\* Rjv::initialize, lines 321-339: the host sets the sample rate while no block
\* is processed.
Initialize ==
    /\ pc = "idle"
    /\ events < MaxEvents
    /\ \E sr \in SampleRates :
          /\ peak_meter_decay_weight' = DecayWeight(sr)
          /\ sample_rate' = sr
          /\ rate_fixed' = (rate_fixed /\ (n_done = 0 \/ sr = sample_rate))
    /\ events' = events + 1
    /\ UNCHANGED <<hl_vars, seen, peak_meter, is_open, last_write, params, time_s, display, display_lock,
                   nch, ui_vars, pc, chk, slot, disp_new, js_code, script,
                   samples, loop_vars, blocks, touched, n_done>>

\* The host opens the editor window: the editor state reports is_open().
EditorOpen ==
    /\ ~is_open
    /\ is_open' = TRUE
    /\ UNCHANGED <<hl_vars, seen, peak_meter, peak_meter_decay_weight, last_write,
                   params, sample_rate, time_s, display, display_lock, nch,
                   ui_vars, pc, chk, slot, disp_new, js_code, script,
                   samples, loop_vars, counters, touched, n_done, rate_fixed>>

\* The host closes the editor window.
EditorClose ==
    /\ is_open
    /\ is_open' = FALSE
    /\ UNCHANGED <<hl_vars, seen, peak_meter, peak_meter_decay_weight, last_write,
                   params, sample_rate, time_s, display, display_lock, nch,
                   ui_vars, pc, chk, slot, disp_new, js_code, script,
                   samples, loop_vars, counters, touched, n_done, rate_fixed>>

\* ---------------------------------------------------------- the audio thread

\* Rjv::process is called with a buffer.
ProcessBegin ==
    /\ pc = "idle"
    /\ blocks < MaxBlocks
    /\ \E n \in BlockLens : samples' = n
    /\ pc' = "d_code"
    /\ chk' = 1
    /\ touched' = FALSE
    /\ seen' = {preset}
    /\ UNCHANGED <<hl_vars, meter_vars, last_write, params, sample_rate, time_s, display,
                   display_lock, nch, ui_vars, slot, disp_new, js_code,
                   script, loop_vars, counters, n_done, rate_fixed>>

\* The position after code() returned at the call site of position p.
AfterCode(p) == IF p = "d_code" THEN "d_value" ELSE "j_value"

\* RjvParams::code(), lines 82-94: one comparison of the if-chain; every
\* comparison reads the preset parameter again.
CodeStep ==
    /\ pc \in {"d_code", "j_code"}
    /\ IF preset = chk
       THEN slot' = chk /\ pc' = AfterCode(pc) /\ chk' = chk
       ELSE IF chk = 5
            THEN slot' = 6 /\ pc' = AfterCode(pc) /\ chk' = chk
            ELSE chk' = chk + 1 /\ UNCHANGED <<slot, pc>>
    /\ UNCHANGED <<hl_vars, seen, meter_vars, last_write, params, sample_rate, time_s, display,
                   display_lock, nch, ui_vars, disp_new, js_code, script,
                   samples, loop_vars, counters, touched, n_done, rate_fixed>>

\* line 352, right-hand side: format!("code <{}>", code().value()).
DisplayFormat ==
    /\ pc = "d_value"
    /\ disp_new' = DisplayText(code[slot])
    /\ pc' = "d_lock"
    /\ UNCHANGED <<hl_vars, seen, meter_vars, last_write, params, sample_rate, time_s, display,
                   display_lock, nch, ui_vars, chk, slot, js_code, script,
                   samples, loop_vars, counters, touched, n_done, rate_fixed>>

\* line 352: self.display.lock(); the audio thread waits while the UI thread
\* holds the mutex.
DisplayLock ==
    /\ pc = "d_lock"
    /\ display_lock = "free"
    /\ display_lock' = "audio"
    /\ pc' = "d_store"
    /\ UNCHANGED <<hl_vars, seen, meter_vars, last_write, params, sample_rate, time_s, display,
                   nch, ui_vars, chk, slot, disp_new, js_code, script,
                   samples, loop_vars, counters, touched, n_done, rate_fixed>>

\* line 352: the assignment through the guard, which is then dropped.
DisplayStore ==
    /\ pc = "d_store"
    /\ display' = disp_new
    /\ display_lock' = "free"
    /\ pc' = "j_code"
    /\ chk' = 1
    /\ seen' = {preset}
    /\ UNCHANGED <<hl_vars, meter_vars, last_write, params, sample_rate, time_s, nch,
                   ui_vars, slot, disp_new, js_code, script, samples,
                   loop_vars, counters, touched, n_done, rate_fixed>>

\* The source built from the slot's default text, not its current value.
BlockSourceDefault(e) == JsCode(DefaultCode[slot])

\* lines 354-357: the source handed to the compiler, built from the text e of
\* the slot code() returned.
BlockSource(e) == JsCode(e)

\* lines 354-359: wrap the text of the slot code() returned and compile it.
Compile ==
    /\ pc = "j_value"
    /\ js_code' = BlockSource(code[slot])
    /\ script' = FromString(js_code')
    /\ n_compiles' = n_compiles + 1
    /\ sample_id' = 0
    /\ pc' = "loop"
    /\ UNCHANGED <<hl_vars, seen, meter_vars, last_write, params, sample_rate, time_s, display,
                   display_lock, nch, ui_vars, chk, slot, disp_new, samples,
                   time, gain, in_s, out_s, amplitude, meter_on,
                   current_peak_meter, n_calls, counters, touched, n_done,
                   rate_fixed>>

\* line 362: self.time_s + sample_id / self.sample_rate
TimeAt(i) == RatAdd(time_s, Rat(i, sample_rate))

\* A failed call silences the rest of the block as well.
GainAtLatched(s, t) ==
    IF sample_id > 0 /\ gain = 0 THEN 0 ELSE UnwrapOr0(Call(s, t))

\* The gain evaluated from the text that is in the slot now.
GainAtCurrent(s, t) ==
    UnwrapOr0(IF code[slot] \in Compilable
              THEN EvalExpr(code[slot], t)
              ELSE Err)

\* lines 369-370 and 374: the gain of one sample index.
GainAt(s, t) == UnwrapOr0(Call(s, t))

\* The gain added to the sample instead of multiplied.
ScaleAdd(x, g) == x + g

\* line 374: *sample *= gain
Scale(x, g) == x * g

\* lines 364 and 375: the sum of the scaled samples of all channels.
RECURSIVE SumTo(_, _)
SumTo(out, n) == IF n = 0 THEN 0 ELSE out[n] + SumTo(out, n - 1)

\* line 381: (amplitude / num_samples as f32).abs()
MeanAbs(sum, n) == Abs(FxDiv(sum, n))

\* The meter updated whether or not the editor is open.
MeterAlways == TRUE

\* line 380: self.params.editor_state.is_open()
MeterActive == is_open

\* The new amplitude blended with the stored peak in every case.
NewPeakMeterSmoothed(amp, cur) ==
    FxMul(cur, peak_meter_decay_weight)
        + FxMul(amp, Unit - peak_meter_decay_weight)

\* lines 383-388: new_peak_meter
NewPeakMeter(amp, cur) ==
    IF amp > cur
    THEN amp
    ELSE FxMul(cur, peak_meter_decay_weight)
             + FxMul(amp, Unit - peak_meter_decay_weight)

\* lines 361-392: one iteration of the sample loop.
Sample ==
    /\ pc = "loop"
    /\ sample_id < samples
    /\ time' = TimeAt(sample_id)
    /\ gain' = GainAt(script, time')
    /\ \E inp \in [1..nch -> SampleValues] :
          /\ in_s' = inp
          /\ out_s' = [c \in 1..nch |-> Scale(inp[c], gain')]
    /\ meter_on' = MeterActive
    /\ IF meter_on'
       THEN /\ amplitude' = MeanAbs(SumTo(out_s', nch), nch)
            /\ current_peak_meter' = peak_meter
            /\ peak_meter' = NewPeakMeter(amplitude', current_peak_meter')
       ELSE /\ amplitude' = SumTo(out_s', nch) * Unit
            /\ UNCHANGED <<current_peak_meter, peak_meter>>
    /\ n_calls' = IF script # None THEN n_calls + 1 ELSE n_calls
    /\ sample_id' = sample_id + 1
    /\ UNCHANGED <<hl_vars, seen, n_compiles, peak_meter_decay_weight, is_open, last_write, params, sample_rate, time_s, display,
                   display_lock, nch, ui_vars, pc, chk, slot, disp_new,
                   js_code, script, samples, counters, touched, n_done,
                   rate_fixed>>

\* The time advanced by the block length, not divided by the sample rate.
TimeAfterBlockUndivided == RatAdd(time_s, Rat(samples, 1))

\* line 395: self.time_s += buffer.samples() / self.sample_rate
TimeAfterBlock == RatAdd(time_s, Rat(samples, sample_rate))

\* lines 395-397: advance the time and return ProcessStatus::Normal; the
\* script and the other locals are dropped.
ProcessEnd ==
    /\ pc = "loop"
    /\ sample_id = samples
    /\ time_s' = TimeAfterBlock
    /\ pc' = "idle"
    /\ chk' = 1
    /\ slot' = 1
    /\ disp_new' = ""
    /\ js_code' = ""
    /\ script' = None
    /\ samples' = 0
    /\ sample_id' = 0
    /\ time' = Rat(0, 1)
    /\ gain' = 0
    /\ in_s' = [c \in 1..nch |-> 0]
    /\ out_s' = [c \in 1..nch |-> 0]
    /\ amplitude' = 0
    /\ meter_on' = FALSE
    /\ current_peak_meter' = 0
    /\ n_compiles' = 0
    /\ n_calls' = 0
    /\ seen' = {}
    /\ blocks' = blocks + 1
    /\ n_done' = n_done + samples
    /\ UNCHANGED <<hl_vars, meter_vars, last_write, params, sample_rate, display,
                   display_lock, nch, ui_vars, events, touched, rate_fixed>>

\* The steps of the UI thread, the host and the audio thread while the
\* editor state's flag is as constructed; NextMeter has the steps that set it.
Next ==
    \/ UiEditor
    \/ UiButtons
    \/ UiLabelLock
    \/ UiLabelUnlock
    \/ HostSetPreset
    \/ Initialize
    \/ ProcessBegin
    \/ CodeStep
    \/ DisplayFormat
    \/ DisplayLock
    \/ DisplayStore
    \/ Compile
    \/ Sample
    \/ ProcessEnd

Spec == Init /\ [][Next]_vars

\* The audio callback with the editor window opened and closed by the host:
\* the steps that read or write the peak meter, its decay weight and the flag
\* that gates it.  The expression changes through the host's preset changes.
NextMeter ==
    \/ EditorOpen
    \/ EditorClose
    \/ HostSetPreset
    \/ Initialize
    \/ ProcessBegin
    \/ CodeStep
    \/ DisplayFormat
    \/ DisplayLock
    \/ DisplayStore
    \/ Compile
    \/ Sample
    \/ ProcessEnd

SpecMeter == Init /\ [][NextMeter]_vars

\* ------------------------------------------------------------- the tokenizer

\* Largest input text, in bytes.
MaxTextLen == 4

\* The bytes of the input texts: '/', '"', line feed, space, tab, four ASCII
\* letters, and the two bytes of a two-byte character such as U+00E9.
Lead == "C3"
Cont == "A9"
Bytes == {"/", "\"", "\n", " ", "\t", "a", "f", "n", "F", Lead, Cont}

\* The number of bytes of the character whose first byte is b.
Utf8Len(b) == IF b = Lead THEN 2 ELSE 1

\* Whether the bytes s are whole characters (a &str).
RECURSIVE IsStr(_)
IsStr(s) ==
    IF s = <<>> THEN TRUE
    ELSE /\ Head(s) # Cont
         /\ Len(s) >= Utf8Len(Head(s))
         /\ \A i \in 2..Utf8Len(Head(s)) : s[i] = Cont
         /\ IsStr(SubSeq(s, Utf8Len(Head(s)) + 1, Len(s)))

Strs == {s \in UNION {[1..n -> Bytes] : n \in 0..MaxTextLen} : IsStr(s)}

\* char::is_ascii_alphanumeric and char::is_ascii_whitespace, by the first
\* byte of the character.
IsAlnum(b) == b \in {"a", "f", "n", "F"}
IsSpace(b) == b \in {" ", "\t", "\n", "\f", "\r"}
IsQuote(b) == b = "\""
IsNewline(b) == b = "\n"
NotAlnum(b) == ~IsAlnum(b)
NotSpace(b) == ~IsSpace(b)

\* The first bytes satisfying each pattern handed to str::find.
IsNewlines == {b \in Bytes : IsNewline(b)}
IsQuotes == {b \in Bytes : IsQuote(b)}
NotAlnums == {b \in Bytes : NotAlnum(b)}
NotSpaces == {b \in Bytes : NotSpace(b)}

\* Whether the character that starts at index i of s has its first byte in S.
CharIs(s, i, S) == s[i] # Cont /\ s[i] \in S

\* str::find: the byte offset of the first character of s whose first byte is in S,
\* or -1 for None.
Find(s, S) ==
    IF \E i \in 1..Len(s) : CharIs(s, i, S)
    THEN (CHOOSE i \in 1..Len(s) :
            CharIs(s, i, S) /\ \A j \in 1..(i - 1) : ~CharIs(s, j, S)) - 1
    ELSE -1

\* str::starts_with
StartsWith(s, p) == Len(s) >= Len(p) /\ SubSeq(s, 1, Len(p)) = p

\* is_keyword: the reserved words.
Keywords ==
    {<<"a", "s">>, <<"a", "s", "y", "n", "c">>, <<"a", "w", "a", "i", "t">>,
     <<"b", "r", "e", "a", "k">>, <<"c", "o", "n", "s", "t">>,
     <<"c", "o", "n", "t", "i", "n", "u", "e">>, <<"c", "r", "a", "t", "e">>,
     <<"d", "y", "n">>, <<"e", "l", "s", "e">>, <<"e", "n", "u", "m">>,
     <<"e", "x", "t", "e", "r", "n">>, <<"f", "a", "l", "s", "e">>,
     <<"f", "n">>, <<"f", "o", "r">>, <<"i", "f">>, <<"i", "m", "p", "l">>,
     <<"i", "n">>, <<"l", "e", "t">>, <<"l", "o", "o", "p">>,
     <<"m", "a", "t", "c", "h">>, <<"m", "o", "d">>, <<"m", "o", "v", "e">>,
     <<"m", "u", "t">>, <<"p", "u", "b">>, <<"r", "e", "f">>,
     <<"r", "e", "t", "u", "r", "n">>, <<"s", "e", "l", "f">>,
     <<"S", "e", "l", "f">>, <<"s", "t", "a", "t", "i", "c">>,
     <<"s", "t", "r", "u", "c", "t">>, <<"s", "u", "p", "e", "r">>,
     <<"t", "r", "a", "i", "t">>, <<"t", "r", "u", "e">>,
     <<"t", "y", "p", "e">>, <<"u", "n", "s", "a", "f", "e">>,
     <<"u", "s", "e">>, <<"w", "h", "e", "r", "e">>,
     <<"w", "h", "i", "l", "e">>}

\* A word that begins with a reserved word.
KeywordPrefix(word) ==
    \E k \in Keywords : Len(word) >= Len(k) /\ SubSeq(word, 1, Len(k)) = k

is_keyword(word) == word \in Keywords

\* A comment end that takes the line break with it.
CommentEndPast(t) ==
    IF Find(t, IsNewlines) # -1 THEN Find(t, IsNewlines) + 1 ELSE Len(t)

\* line 99: the end of a comment.
CommentEnd(t) ==
    IF Find(t, IsNewlines) # -1 THEN Find(t, IsNewlines) ELSE Len(t)

\* A string end that prefers the line break to a later double quote.
StringEndAtLine(t) ==
    IF Find(t, IsNewlines) # -1 THEN Find(t, IsNewlines)
    ELSE IF Find(Tail(t), IsQuotes) # -1 THEN Find(Tail(t), IsQuotes) + 2
    ELSE Len(t)

\* lines 103-107: the end of a string literal.
StringEnd(t) ==
    IF Find(Tail(t), IsQuotes) # -1 THEN Find(Tail(t), IsQuotes) + 2
    ELSE IF Find(t, IsNewlines) # -1 THEN Find(t, IsNewlines)
    ELSE Len(t)

\* A word end before the first character.
WordEndNone(t) == 0

\* lines 115-117: the end of a run of ASCII alphanumeric characters.
WordEnd(t) ==
    IF Find(Tail(t), NotAlnums) # -1 THEN Find(Tail(t), NotAlnums) + 1
    ELSE Len(t)

\* A whitespace end after the first character.
SpaceEndFirst(t) == 1

\* lines 127-129: the end of a run of ASCII whitespace.
SpaceEnd(t) ==
    IF Find(Tail(t), NotSpaces) # -1 THEN Find(Tail(t), NotSpaces) + 1
    ELSE Len(t)

\* A character end after the first byte.
CharEndByte(t) == 1

\* lines 137-139: the offset of the second character, or the length.
CharEnd(t) ==
    IF Len(t) > Utf8Len(Head(t)) THEN Utf8Len(Head(t)) ELSE Len(t)

\* &text[..end]
Taken(t, end) == SubSeq(t, 1, end)

\* The slice taken one byte further than the token.
RestSkipping(t, end) == SubSeq(t, end + 2, Len(t))

\* &text[end..]
Rest(t, end) == SubSeq(t, end + 1, Len(t))

\* LayoutJob::append: the text is pushed and a section with its byte range
\* and the format of the token type added.
JobAppend(j, t, tt) ==
    [text |-> j.text \o t,
     sections |-> Append(j.sections,
                         [tt |-> tt,
                          from |-> Len(j.text),
                          to |-> Len(j.text) + Len(t)])]

\* LayoutJob::default()
EmptyJob == [text |-> <<>>, sections |-> <<>>]

\* One iteration of the loop that appends the first end bytes as a token.
Emit(tt, end) ==
    /\ job' = JobAppend(job, Taken(text, end), tt)
    /\ text' = Rest(text, end)
    /\ UNCHANGED <<src, seen, cache_vars, meter_vars, params, sample_rate, time_s, display,
                   display_lock, nch, ui_vars, pc, chk, slot, disp_new, js_code, script,
                   samples, loop_vars, counters, touched, last_write, n_done,
                   rate_fixed>>

AtComment(t) == StartsWith(t, <<"/", "/">>)
AtString(t) == t # <<>> /\ IsQuote(Head(t))
AtWord(t) == t # <<>> /\ IsAlnum(Head(t))
AtSpace(t) == t # <<>> /\ IsSpace(Head(t))

\* lines 98-101
HlComment ==
    /\ text # <<>>
    /\ AtComment(text)
    /\ Emit("Comment", CommentEnd(text))

\* lines 102-113
HlString ==
    /\ text # <<>>
    /\ ~AtComment(text)
    /\ AtString(text)
    /\ Emit("StringLiteral", StringEnd(text))

\* lines 114-125
HlWord ==
    /\ text # <<>>
    /\ ~AtComment(text) /\ ~AtString(text)
    /\ AtWord(text)
    /\ Emit(IF is_keyword(Taken(text, WordEnd(text)))
            THEN "Keyword" ELSE "Literal",
            WordEnd(text))

\* lines 126-135
HlWhitespace ==
    /\ text # <<>>
    /\ ~AtComment(text) /\ ~AtString(text) /\ ~AtWord(text)
    /\ AtSpace(text)
    /\ Emit("Whitespace", SpaceEnd(text))

\* lines 136-146
HlPunctuation ==
    /\ text # <<>>
    /\ ~AtComment(text) /\ ~AtString(text) /\ ~AtWord(text) /\ ~AtSpace(text)
    /\ Emit("Punctuation", CharEnd(text))

\* Highlighter::highlight is called with a text of at most MaxTextLen bytes.
InitHighlight ==
    /\ InitPlugin
    /\ InitCache
    /\ src \in Strs
    /\ text = src
    /\ job = EmptyJob

NextHighlight ==
    \/ HlComment
    \/ HlString
    \/ HlWord
    \/ HlWhitespace
    \/ HlPunctuation

SpecHighlight == InitHighlight /\ [][NextHighlight]_vars

\* The while loop of lines 97-147 runs on until its condition fails.
SpecHighlightFair == SpecHighlight /\ WF_vars(NextHighlight)

\* ------------------------------------------------------- the highlight cache

\* The texts highlight is called with.
CacheTexts ==
    {<<>>, <<"f", "n">>, <<"f", "n", "a">>, <<"\"", "\n", "\"">>,
     <<"/", "/", " ">>}

\* line 26: CodeTheme::light()
Theme == "light"

\* The token type and the end of the first token of a non-empty text t, as
\* the branches of lines 98-146 choose them.
TokenType(t) ==
    IF AtComment(t) THEN "Comment"
    ELSE IF AtString(t) THEN "StringLiteral"
    ELSE IF AtWord(t)
         THEN IF is_keyword(Taken(t, WordEnd(t))) THEN "Keyword" ELSE "Literal"
    ELSE IF AtSpace(t) THEN "Whitespace"
    ELSE "Punctuation"

TokenEnd(t) ==
    IF AtComment(t) THEN CommentEnd(t)
    ELSE IF AtString(t) THEN StringEnd(t)
    ELSE IF AtWord(t) THEN WordEnd(t)
    ELSE IF AtSpace(t) THEN SpaceEnd(t)
    ELSE CharEnd(t)

\* lines 95-149: the job after the loop has scanned t, starting with job j.
RECURSIVE Scan(_, _)
Scan(t, j) ==
    IF t = <<>> THEN j
    ELSE Scan(Rest(t, TokenEnd(t)),
              JobAppend(j, Taken(t, TokenEnd(t)), TokenType(t)))

\* lines 28-32: ComputerMut::compute, self.highlight(theme, code)
compute(key) == Scan(key.code, EmptyJob)

\* A key made of the theme alone.
CacheKeyThemeOnly(theme, t) == [theme |-> theme, code |-> <<>>]

\* line 39: the key (theme, code) handed to the cache.
CacheKey(theme, t) == [theme |-> theme, code |-> t]

\* lines 25-40: highlight(ctx, code). FrameCache::get returns the value stored
\* for the key when there is one, and otherwise computes the value, stores it
\* and returns it.
HighlightCall ==
    /\ \E t \in CacheTexts :
          LET key == CacheKey(Theme, t)
          IN  /\ hl_code' = t
              /\ IF \E e \in cache : e.key = key
                 THEN /\ hl_result' = (CHOOSE e \in cache : e.key = key).value
                      /\ hl_hit' = TRUE
                      /\ cache' = cache
                 ELSE /\ hl_result' = compute(key)
                      /\ hl_hit' = FALSE
                      /\ cache' = cache \cup
                                      {[key |-> key, value |-> compute(key)]}
    /\ UNCHANGED <<src, text, job, seen, meter_vars, last_write, params, sample_rate,
                   time_s, display, display_lock, nch, ui_vars, pc, chk, slot,
                   disp_new, js_code, script, samples, loop_vars, counters,
                   touched, n_done, rate_fixed>>

\* Between two rendering passes the cache drops an entry.
CacheEvict ==
    /\ \E e \in cache : cache' = cache \ {e}
    /\ UNCHANGED <<src, text, job, seen, hl_code, hl_result, hl_hit, meter_vars,
                   last_write, params, sample_rate, time_s, display,
                   display_lock, nch, ui_vars, pc, chk, slot, disp_new,
                   js_code, script, samples, loop_vars, counters, touched,
                   n_done, rate_fixed>>

NextCache ==
    \/ HighlightCall
    \/ CacheEvict

SpecCache == Init /\ [][NextCache]_vars

\* ------------------------------------------------------------------ claims

\* The process call is inside its sample loop and has processed at least one
\* sample index: time, gain, in_s and out_s are those of index sample_id - 1.
InLoop == pc = "loop" /\ sample_id > 0

\* C1: when the text of the block does not compile, the gain of every sample
\* index of the block is 0 and every channel sample becomes 0; the call goes on
\* to its end (the loop either has a next index or can return).
C1_CompileFailureIsSilence ==
    /\ (InLoop /\ FromString(js_code) = None) =>
          /\ gain = 0
          /\ \A c \in 1..nch : out_s[c] = 0
    /\ (pc = "loop" /\ FromString(js_code) = None) =>
          (sample_id < samples \/ ENABLED ProcessEnd)

C1_Witness ==
    /\ InLoop
    /\ FromString(js_code) = None
    /\ sample_id = samples
    /\ samples = 2
    /\ in_s[1] # 0
    /\ blocks = 1

\* C2: a sample index whose call succeeds is scaled by the value its own call
\* returned, also after a call failed earlier in the block or in an earlier
\* block; an index whose call fails gets gain 0.
C2_FailureIsPerSample ==
    (InLoop /\ script # None) =>
        LET e == CHOOSE x \in Compilable : JsCode(x) = script
            r == EvalExpr(e, time)
        IN  /\ time = TimeAt(sample_id - 1)
            /\ r.ok => gain = r.val
            /\ ~r.ok => gain = 0
            /\ \A c \in 1..nch : out_s[c] = in_s[c] * gain

\* The call failed at index 0 (t = 1) and succeeded at index 1 (t = 2) of the
\* same block.
C2_Witness ==
    /\ InLoop
    /\ script = JsCode("t == 1 ? x : 2")
    /\ sample_rate = 1
    /\ time_s = Rat(1, 1)
    /\ sample_id = 2
    /\ gain = 2
    /\ in_s[1] # 0

\* C3: a process call that began after the UI committed a text, with no commit
\* and no preset change since, compiles exactly that text.
C3_LatestCommitCompiled ==
    (pc = "loop" /\ ~touched /\ last_write = "commit") =>
        /\ js_code = JsCode(state_code)
        /\ js_code = JsCode(code[CodeOf(preset)])

C3_Witness ==
    /\ pc = "loop"
    /\ ~touched
    /\ last_write = "commit"
    /\ state_code = "t == 1 ? x : 2"
    /\ blocks = 1

\* C4: the text written to the status display and the text compiled in the
\* same process call are the same text.
C4_SingleSnapshot ==
    pc = "loop" =>
        \E e \in Texts : disp_new = DisplayText(e) /\ js_code = JsCode(e)

\* C5: the audio thread is never waiting for the display mutex while the UI
\* thread holds it.
C5_AudioNeverWaitsOnUi ==
    ~(pc = "d_lock" /\ display_lock = "ui")

\* C6: when the compiled text is "20", every channel sample of every sample
\* index is multiplied by exactly 20.
C6_ConstantTwenty ==
    (InLoop /\ js_code = JsCode("20")) =>
        /\ gain = 20
        /\ \A c \in 1..nch : out_s[c] = 20 * in_s[c]

C6_Witness ==
    /\ InLoop
    /\ js_code = JsCode("20")
    /\ blocks = 1
    /\ time_s # Rat(0, 1)
    /\ sample_id = 2
    /\ in_s[1] = -1

\* C7: the time accumulator starts at 0, changes only when process returns,
\* where it grows by block length / sample rate, and never decreases; the time
\* of sample index i is the block's start time + i / sample rate, which, while
\* the sample rate has been the same for all blocks, is the number of sample
\* indices processed before it divided by the sample rate.
C7_TimeAccumulator ==
    /\ time_s = Rat(0, 1)
    /\ [](InLoop =>
            /\ time = RatAdd(time_s, Rat(sample_id - 1, sample_rate))
            /\ rate_fixed => time = Rat(n_done + sample_id - 1, sample_rate))
    /\ [](rate_fixed => time_s = Rat(n_done, sample_rate))
    /\ [][/\ RatLeq(time_s, time_s')
          /\ time_s' # time_s =>
                /\ pc = "loop" /\ pc' = "idle"
                /\ time_s' = RatAdd(time_s, Rat(samples, sample_rate))]_vars

C7_Witness ==
    /\ InLoop
    /\ blocks = 1
    /\ sample_rate = 3
    /\ rate_fixed
    /\ n_done = 2
    /\ sample_id = 2
    /\ time = Rat(1, 1)

\* C8: right after a click on a preset button the editor text is the text
\* stored for that preset, and the preset parameter is that preset.
C8_SelectShowsStoredText ==
    [][(events' = events + 1 /\ last_write' = "click") =>
          /\ preset' = state_preset'
          /\ state_code' = code'[state_preset']]_vars

\* Preset 1 was edited and preset 2 then selected: the editor shows "20".
C8_Witness ==
    /\ ui_pc = "label"
    /\ last_write = "click"
    /\ code[1] \in EditTexts
    /\ state_preset = 2
    /\ state_code = "20"

\* C9: every preset has one stored text, at first its default, and a step
\* changes at most the slot of the preset selected when it is taken.
C9_EditChangesOnlySelectedSlot ==
    /\ code = DefaultCode
    /\ [](code \in [Presets -> Texts])
    /\ [][\A k \in Presets :
            k # CodeOf(preset) => code'[k] = code[k]]_vars

\* After the host selected preset 3, an edit went to slot 3 although the UI's
\* own preset index is still 1.
C9_Witness ==
    /\ last_write = "commit"
    /\ state_preset = 1
    /\ preset = 3
    /\ code[3] \in EditTexts
    /\ code[1] = DefaultCode[1]

\* C10: the sections appended so far are contiguous byte ranges that start at
\* 0, come in left-to-right order and cover exactly the text consumed so far,
\* which, followed by the text still to scan, is the input; when the scan
\* ends the sections cover the whole input.
C10_LosslessCoverage ==
    LET n == Len(job.sections)
    IN  /\ job.text \o text = src
        /\ n > 0 => /\ job.sections[1].from = 0
                    /\ job.sections[n].to = Len(job.text)
        /\ \A i \in 1..n : job.sections[i].from < job.sections[i].to
        /\ \A i \in 1..(n - 1) : job.sections[i + 1].from = job.sections[i].to
        /\ text = <<>> => job.text = src

\* A word, a two-byte character and a space were appended as three tokens.
C10_Witness ==
    /\ text = <<>>
    /\ src = <<"a", Lead, Cont, " ">>
    /\ Len(job.sections) = 3
    /\ job.sections[2] = [tt |-> "Punctuation", from |-> 1, to |-> 3]

\* C11: a StringLiteral token whose opening double quote is followed by a
\* line break with no double quote in between ends just before that line
\* break, whatever follows the line break.
C11_UnterminatedStringStopsAtNewline ==
    \A i \in 1..Len(job.sections) :
        LET s == job.sections[i]
            after == (s.from + 2)..Len(src)
        IN  s.tt = "StringLiteral" =>
                \A p \in after :
                    (/\ src[p] = "\n"
                     /\ \A q \in (s.from + 2)..(p - 1) :
                            src[q] \notin {"\"", "\n"})
                    => s.to = p - 1

\* C12: a Comment token starts with "//", contains no line break and ends
\* just before the next line break or at the end of the text; a token that
\* starts where the text reads "//" is a Comment token.
C12_CommentToLineEnd ==
    \A i \in 1..Len(job.sections) :
        LET s == job.sections[i]
        IN  /\ s.tt = "Comment" =>
                /\ s.from + 2 <= s.to
                /\ src[s.from + 1] = "/" /\ src[s.from + 2] = "/"
                /\ \A q \in (s.from + 1)..s.to : src[q] # "\n"
                /\ s.to = Len(src) \/ src[s.to + 1] = "\n"
            /\ AtComment(SubSeq(src, s.from + 1, Len(src))) =>
                s.tt = "Comment"

\* The comment "//a" was appended and the line break after it left out.
C12_Witness ==
    /\ text = <<>>
    /\ src = <<"/", "/", "a", "\n">>
    /\ Len(job.sections) = 2
    /\ job.sections[1] = [tt |-> "Comment", from |-> 0, to |-> 3]

\* C13: a token that starts with an ASCII alphanumeric character is a maximal
\* run of ASCII alphanumeric characters; it is a Keyword exactly when the
\* whole run is a reserved word, and a Literal otherwise.
C13_WordsAreMaximalRuns ==
    \A i \in 1..Len(job.sections) :
        LET s == job.sections[i]
        IN  IsAlnum(src[s.from + 1]) =>
                /\ \A q \in (s.from + 1)..s.to : IsAlnum(src[q])
                /\ s.from = 0 \/ ~IsAlnum(src[s.from])
                /\ s.to = Len(src) \/ ~IsAlnum(src[s.to + 1])
                /\ s.tt \in {"Keyword", "Literal"}
                /\ s.tt = "Keyword" <=>
                       SubSeq(src, s.from + 1, s.to) \in Keywords

\* "fna" begins with the reserved word "fn" and is a Literal.
C13_Witness ==
    /\ text = <<>>
    /\ src = <<"/", "f", "n", "a">>
    /\ Len(job.sections) = 2
    /\ job.sections[2] = [tt |-> "Literal", from |-> 1, to |-> 4]

\* C14: a text of one or more ASCII whitespace characters and nothing else is
\* tokenized as a single Whitespace token that spans the whole text.
C14_WhitespaceOnly ==
    (/\ text = <<>>
     /\ src # <<>>
     /\ \A q \in 1..Len(src) : IsSpace(src[q]))
    => job.sections =
           <<[tt |-> "Whitespace", from |-> 0, to |-> Len(src)]>>

C14_Witness ==
    /\ text = <<>>
    /\ src = <<" ", "\n", "\t", " ">>
    /\ Len(job.sections) = 1
    /\ job.sections[1].tt = "Whitespace"

\* C15: a token that starts at a character that is not the start of "//", not
\* a double quote, not ASCII alphanumeric and not ASCII whitespace is a
\* Punctuation token made of all the bytes of that one character.
C15_PunctuationIsOneChar ==
    \A i \in 1..Len(job.sections) :
        LET s == job.sections[i]
            b == src[s.from + 1]
        IN  (/\ ~AtComment(SubSeq(src, s.from + 1, Len(src)))
             /\ ~IsQuote(b) /\ ~IsAlnum(b) /\ ~IsSpace(b))
            => /\ s.tt = "Punctuation"
               /\ s.to = s.from + Utf8Len(b)

\* A lone '/', a two-byte character and another lone '/'.
C15_Witness ==
    /\ text = <<>>
    /\ src = <<"/", Lead, Cont, "/">>
    /\ Len(job.sections) = 3
    /\ job.sections[1] = [tt |-> "Punctuation", from |-> 0, to |-> 1]
    /\ job.sections[2] = [tt |-> "Punctuation", from |-> 1, to |-> 3]

\* C16: when the editor is open at a sample index and the amplitude of the
\* index is greater than the peak loaded, the peak stored is that amplitude.
C16_InstantAttack ==
    (InLoop /\ meter_on /\ amplitude > current_peak_meter) =>
        peak_meter = amplitude

\* The amplitude 30 replaced the peak 0 that a silent index had left.
C16_Witness ==
    /\ InLoop
    /\ meter_on
    /\ current_peak_meter = 0
    /\ amplitude = 30 * Unit
    /\ peak_meter = 30 * Unit

\* C17: the stored peak is never negative, from construction on.
C17_PeakNonNegative == peak_meter >= 0

\* C18: whenever process can be called the decay weight is greater than 0 and
\* less than 1, also when initialize was never called.
C18_DecayWeightInUnitInterval ==
    ENABLED ProcessBegin =>
        (0 < peak_meter_decay_weight /\ peak_meter_decay_weight < Unit)

\* The peak p after n silent sample indices with decay weight w.
RECURSIVE Decayed(_, _, _)
Decayed(p, w, n) == IF n = 0 THEN p ELSE Decayed(FxMul(p, w), w, n - 1)

\* C19: at a sample index of amplitude 0 with the editor open the stored peak
\* becomes the loaded peak times the decay weight; and for a sample rate with
\* a whole number of samples in 150 ms, that many silent indices take a peak
\* to a quarter of its value, within one percent and the rounding.
C19_SilenceDecay ==
    /\ (InLoop /\ meter_on /\ amplitude = 0) =>
          peak_meter = FxMul(current_peak_meter, peak_meter_decay_weight)
    /\ \A sr \in SampleRates : \A p \in {2 * Unit, 30 * Unit} :
          (3 * sr) % 20 = 0 =>
              Abs(4 * Decayed(p, DecayWeight(sr), (3 * sr) \div 20) - p)
                  <= p \div 100 + 4

\* C20: the stored peak changes only in an iteration of the sample loop of
\* process at which the editor is open; an iteration at which it is closed
\* leaves it as it was.
C20_MeterGatedByOpen ==
    [][/\ peak_meter' # peak_meter =>
            (pc = "loop" /\ sample_id' = sample_id + 1 /\ is_open)
       /\ (pc = "loop" /\ sample_id' = sample_id + 1 /\ ~is_open) =>
            peak_meter' = peak_meter]_vars

\* An index was scaled by 30 with the editor closed; the peak is the one of
\* construction.
C20_Witness ==
    /\ InLoop
    /\ ~meter_on
    /\ gain = 30
    /\ amplitude # 0
    /\ peak_meter = MINUS_INFINITY_DB * Unit

\* C22: a token that starts at a double quote is a StringLiteral token that
\* ends with the first double quote after the opening one, wherever it is;
\* when there is none it ends just before the first line break, and when
\* there is none of those either, at the end of the text.
C22_StringToNextQuote ==
    \A i \in 1..Len(job.sections) :
        LET s == job.sections[i]
            after == (s.from + 2)..Len(src)
            quotes == {q \in after : src[q] = "\""}
            breaks == {p \in after : src[p] = "\n"}
        IN  src[s.from + 1] = "\"" =>
                /\ s.tt = "StringLiteral"
                /\ quotes # {} =>
                       /\ s.to \in quotes
                       /\ \A q \in quotes : s.to <= q
                /\ (quotes = {} /\ breaks # {}) =>
                       /\ s.to + 1 \in breaks
                       /\ \A p \in breaks : s.to + 1 <= p
                /\ (quotes = {} /\ breaks = {}) => s.to = Len(src)

\* The closing quote was found behind a line break.
C22_Witness ==
    /\ text = <<>>
    /\ src = <<"\"", "\n", "a", "\"">>
    /\ job.sections = <<[tt |-> "StringLiteral", from |-> 0, to |-> 4]>>

\* C23: every iteration of the scan appends one non-empty token and shortens
\* the text left; there are never more tokens than bytes consumed, the empty
\* text has no token, and the scan reaches the end of the text.
C23_ScanTerminates ==
    /\ [][/\ Len(text') < Len(text)
          /\ Len(job'.sections) = Len(job.sections) + 1
          /\ Len(job'.text) > Len(job.text)]_vars
    /\ [](Len(job.sections) <= Len(job.text))
    /\ [](src = <<>> => job.sections = <<>>)
    /\ [](text # <<>> => ENABLED NextHighlight)
    /\ <>(text = <<>>)

\* A two-byte character and "//" at the end of the text were scanned as two
\* tokens.
C23_Witness ==
    /\ text = <<>>
    /\ src = <<Lead, Cont, "/", "/">>
    /\ Len(job.sections) = 2
    /\ job.sections[2] = [tt |-> "Comment", from |-> 2, to |-> 4]

\* C21: every highlight call returns the job the tokenizer computes for the
\* text of that call, whether it was served from the cache or computed, and
\* whatever was evicted before; every cache entry holds the job of its own
\* key.
C21_CacheReturnsOwnKey ==
    /\ hl_result.text = hl_code
    /\ hl_result = Scan(hl_code, [text |-> <<>>, sections |-> <<>>])
    /\ \A e \in cache :
          e.value = Scan(e.key.code, [text |-> <<>>, sections |-> <<>>])

\* A call was served from the cache while entries for other texts were there.
C21_Witness ==
    /\ hl_hit
    /\ hl_code = <<"\"", "\n", "\"">>
    /\ Cardinality(cache) >= 3
    /\ Len(hl_result.sections) = 1

\* C24: a process call compiles once, before its first sample index, and
\* keeps that handle to the end of its loop whatever the UI commits in the
\* meantime; the handle is called once per sample index, the value of that
\* call (0 when it failed) scales every channel of the index, and no handle
\* is left when the call has returned.
C24_CompileOncePerBlock ==
    /\ [](pc = "loop" =>
            /\ n_compiles = 1
            /\ script = FromString(js_code)
            /\ n_calls = IF script # None THEN sample_id ELSE 0)
    /\ [](pc # "loop" => n_compiles = 0 /\ n_calls = 0 /\ script = None)
    /\ [](InLoop =>
            /\ \A c \in 1..nch : out_s[c] = in_s[c] * gain
            /\ gain =
                 IF \E e \in Compilable : JsCode(e) = js_code
                 THEN LET e == CHOOSE x \in Compilable : JsCode(x) = js_code
                          r == EvalExpr(e, time)
                      IN  IF r.ok THEN r.val ELSE 0
                 ELSE 0)
    /\ [][(pc = "loop" /\ pc' = "loop") =>
             (script' = script /\ js_code' = js_code)]_vars

\* The UI committed a text to slot 2 after the block had compiled "20"; the
\* second sample index of the block is still scaled by 20 on both channels.
C24_Witness ==
    /\ InLoop
    /\ touched
    /\ last_write = "commit"
    /\ js_code = JsCode("20")
    /\ slot = 2
    /\ code[2] \in EditTexts
    /\ nch = 2
    /\ sample_id = 2
    /\ n_calls = 2
    /\ gain = 20

\* C25: the slot a call of code() returns is the slot of a value the preset
\* parameter had at some moment during the call.
C25_CodeReturnsSelectedSlot ==
    pc \in {"d_value", "j_value"} => \E p \in seen : slot = CodeOf(p)

\* C26: when a frame of the UI ends, the UI's own preset index is the preset
\* parameter and the editor text is the text of the active slot.
C26_UiStateFollowsParams ==
    [][(ui_pc = "label_locked" /\ ui_pc' = "idle") =>
          /\ state_preset' = preset'
          /\ state_code' = code'[CodeOf(preset')]]_vars

\* The sum of the magnitudes of the scaled samples of the first n channels.
RECURSIVE SumAbsTo(_, _)
SumAbsTo(out, n) == IF n = 0 THEN 0 ELSE Abs(out[n]) + SumAbsTo(out, n - 1)

\* C27: the amplitude of a sample index at which the editor is open is the
\* sum of the magnitudes of the scaled samples of all channels divided by the
\* number of channels.
C27_AmplitudeIsMeanMagnitude ==
    (InLoop /\ meter_on) => amplitude = FxDiv(SumAbsTo(out_s, nch), nch)

====
